---------------------------- MODULE Spec2Model ----------------------------
(***************************************************************************)
(* The manual-approval gate of scripts/status_check.py (CI) and            *)
(* scripts/status_check_cd.py (CD): one fetch of the flag file per poll    *)
(* attempt, the classification of the fetched text, the poll loop with its *)
(* 5-second sleep, optional attempt cap and 24-hour ceiling, and main's    *)
(* exit code.                                                              *)
(*                                                                         *)
(* A text is a sequence of one-character strings.  The remote endpoint is  *)
(* the environment: each fetch draws its response, and the time the fetch  *)
(* and the sleep take, from small sets.                                    *)
(***************************************************************************)
EXTENDS Integers, Sequences, FiniteSets, TLC

VARIABLES
    gate,          \* "ci" (status_check.py) or "cd" (status_check_cd.py)
    caller,        \* "main" or "direct" (poll_for_decision called by a host)
    pc,            \* position in main / poll_for_decision
    max_attempts,  \* the parameter: None or Some(k)
    attempt,       \* local of poll_for_decision
    start_time,    \* local of poll_for_decision
    elapsed_time,  \* local of poll_for_decision, read at the top of an attempt
    status,        \* local of poll_for_decision: the classification
    result,        \* return value of poll_for_decision: None or Some(BOOLEAN)
    exit_code,     \* argument of sys.exit: None or Some(code)
    clock,         \* time.time(), in seconds
    response,      \* what the remote endpoint answered to the attempt's fetch
    fetches,       \* number of urlopen calls issued
    sleeps,        \* number of time.sleep calls issued
    slept,         \* seconds asked of time.sleep, summed
    classified,    \* per status, the number of attempts classified so
    env,           \* os.environ: the three variables the scripts read
    startup_env,   \* os.environ as it was when the run started
    location,      \* arguments of the latest get_github_file_content call
    run_input,     \* inputs of a side-by-side run of the two pollers
    run_output     \* what the two pollers made of run_input

vars == <<gate, caller, pc, max_attempts, attempt, start_time, elapsed_time,
          status, result, exit_code, clock, response, fetches, sleeps, slept,
          classified, env, startup_env, location, run_input, run_output>>

\* what the poll loop itself never writes
hostVars == <<env, startup_env, run_input, run_output>>

(***************************************************************************)
(* Python values                                                           *)
(***************************************************************************)
None == <<>>
Some(x) == <<x>>
Val(o) == o[1]

\* mutant: `max_attempts is not None` for the truth value of max_attempts
Truthy_IsNotNone(o) == o # None

\* truth value of an int-or-None, as `if max_attempts and ...` tests it
Truthy(o) == o # None /\ Val(o) # 0

(***************************************************************************)
(* Program constants                                                       *)
(***************************************************************************)
POLL_INTERVAL == 5
MAX_DURATION == 86400

(***************************************************************************)
(* Bounds of the model                                                     *)
(***************************************************************************)
\* attempts explored by Spec (the loop itself has no such bound)
MaxAttempts == 4
\* largest max_attempts passed by a direct caller
MaxCap == 3

(***************************************************************************)
(* Text: str.strip() and str.lower()                                       *)
(***************************************************************************)
Whitespace == {" ", "\t", "\n", "\r"}
UpperLetters == <<"A", "C", "D", "E", "G", "I", "L", "N", "O", "P", "R", "V", "W">>
LowerLetters == <<"a", "c", "d", "e", "g", "i", "l", "n", "o", "p", "r", "v", "w">>

LowerChar(c) ==
    IF \E i \in 1..Len(UpperLetters) : UpperLetters[i] = c
    THEN LowerLetters[CHOOSE i \in 1..Len(UpperLetters) : UpperLetters[i] = c]
    ELSE c

\* mutant: the text is compared as fetched, .lower() forgotten
Lower_Identity(s) == s

Lower(s) == [i \in 1..Len(s) |-> LowerChar(s[i])]

RECURSIVE LStrip(_)
LStrip(s) ==
    IF s # <<>> /\ Head(s) \in Whitespace THEN LStrip(Tail(s)) ELSE s

RECURSIVE RStrip(_)
RStrip(s) ==
    IF s # <<>> /\ s[Len(s)] \in Whitespace
    THEN RStrip(SubSeq(s, 1, Len(s) - 1))
    ELSE s

Strip(s) == RStrip(LStrip(s))

(***************************************************************************)
(* The decision phrases                                                    *)
(***************************************************************************)
CI_APPROVED == <<"c", "i", " ", "a", "p", "p", "r", "o", "v", "e", "d">>
CI_DECLINED == <<"c", "i", " ", "d", "e", "c", "l", "i", "n", "e", "d">>
CD_APPROVED == <<"c", "d", " ", "a", "p", "p", "r", "o", "v", "e", "d">>
CD_DECLINED == <<"c", "d", " ", "d", "e", "c", "l", "i", "n", "e", "d">>

(***************************************************************************)
(* The content fetcher.  A response of kind "ok" is a 200 answer whose     *)
(* JSON body's base64 content field decodes to the text `body`; "http404"  *)
(* and "httpError" are urllib's HTTPError with code 404 and with any other *)
(* code; "exception" is every other exception of the try block (URLError,  *)
(* a timeout, a body that is not JSON, a missing content field, bytes that *)
(* are not base64 or not UTF-8).                                           *)
(***************************************************************************)
ResponseKinds == {"ok", "http404", "httpError", "exception"}
NoResponse == [kind |-> "none", body |-> <<>>]
Ok(text) == [kind |-> "ok", body |-> text]
Failure(k) == [kind |-> k, body |-> <<>>]

\* mutant: a failed fetch yields the empty text instead of None
get_github_file_content_EmptyOnError(resp) ==
    IF resp.kind = "ok" THEN Some(Strip(resp.body)) ELSE Some(<<>>)

get_github_file_content(resp) ==
    IF resp.kind = "ok" THEN Some(Strip(resp.body)) ELSE None


IsInfix(sub, s) ==
    \E i \in 0..(Len(s) - Len(sub)) : SubSeq(s, i + 1, i + Len(sub)) = sub
IsPrefix(sub, s) == Len(sub) <= Len(s) /\ SubSeq(s, 1, Len(sub)) = sub

\* mutant: `"ci approved" in content_lower` for `content_lower == "ci approved"`
check_ci_status_once_Infix(resp) ==
    LET content == get_github_file_content(resp) IN
    IF content = None THEN "error"
    ELSE LET content_lower == Lower(Val(content)) IN
         IF IsInfix(CI_APPROVED, content_lower) THEN "approved"
         ELSE IF IsInfix(CI_DECLINED, content_lower) THEN "declined"
         ELSE "waiting"

\* check_ci_status_once of scripts/status_check.py, from the fetch's response on
check_ci_status_once(resp) ==
    LET content == get_github_file_content(resp) IN
    IF content = None THEN "error"
    ELSE LET content_lower == Lower(Val(content)) IN
         IF content_lower = CI_APPROVED THEN "approved"
         ELSE IF content_lower = CI_DECLINED THEN "declined"
         ELSE "waiting"

\* mutant: the CD script, copied from the CI script, still accepts its phrases
check_cd_status_once_CiPhrases(resp) ==
    LET content == get_github_file_content(resp) IN
    IF content = None THEN "error"
    ELSE LET content_lower == Lower(Val(content)) IN
         IF content_lower \in {CD_APPROVED, CI_APPROVED} THEN "approved"
         ELSE IF content_lower \in {CD_DECLINED, CI_DECLINED} THEN "declined"
         ELSE "waiting"

\* mutant: content_lower.startswith("cd approved") for the equality
check_cd_status_once_StartsWith(resp) ==
    LET content == get_github_file_content(resp) IN
    IF content = None THEN "error"
    ELSE LET content_lower == Lower(Val(content)) IN
         IF IsPrefix(CD_APPROVED, content_lower) THEN "approved"
         ELSE IF IsPrefix(CD_DECLINED, content_lower) THEN "declined"
         ELSE "waiting"

\* check_cd_status_once of scripts/status_check_cd.py
check_cd_status_once(resp) ==
    LET content == get_github_file_content(resp) IN
    IF content = None THEN "error"
    ELSE LET content_lower == Lower(Val(content)) IN
         IF content_lower = CD_APPROVED THEN "approved"
         ELSE IF content_lower = CD_DECLINED THEN "declined"
         ELSE "waiting"

\* the classifier the script of gate g calls at line 102
check_status_once(g, resp) ==
    IF g = "ci" THEN check_ci_status_once(resp) ELSE check_cd_status_once(resp)

Statuses == {"approved", "declined", "waiting", "error"}

(***************************************************************************)
(* The poll loop's tests                                                   *)
(***************************************************************************)
\* mutant: attempt > max_attempts
CapReached_OffByOne(m, a) == Truthy(m) /\ a > Val(m)

\* line 115: max_attempts and attempt >= max_attempts
CapReached(m, a) == Truthy(m) /\ a >= Val(m)

\* mutant: the ceiling taken in milliseconds
CeilingExceeded_Milliseconds(e) == e > MAX_DURATION * 1000

\* line 123: elapsed_time > 86400
CeilingExceeded(e) == e > MAX_DURATION

\* mutant: sys.exit(0) on both branches
ExitCode_AlwaysZero(r) == 0

\* lines 132-137: sys.exit(0) if the poller returned True, else sys.exit(1)
ExitCode(r) == IF r THEN 0 ELSE 1

(***************************************************************************)
(* The environment: texts the flag file may hold, durations                *)
(***************************************************************************)
UpperChar(c) ==
    IF \E i \in 1..Len(LowerLetters) : LowerLetters[i] = c
    THEN UpperLetters[CHOOSE i \in 1..Len(LowerLetters) : LowerLetters[i] = c]
    ELSE c

\* s with the letters at the positions U in upper case
Cased(s, U) == [i \in 1..Len(s) |-> IF i \in U THEN UpperChar(s[i]) ELSE s[i]]
Upper(s) == Cased(s, 1..Len(s))

PENDING_REVIEW ==
    <<"p", "e", "n", "d", "i", "n", "g", " ", "r", "e", "v", "i", "e", "w">>

FlagTexts ==
    { CI_APPROVED,
      Cased(CI_APPROVED, {1, 2, 4}),
      <<" ", " ">> \o Upper(CI_APPROVED) \o <<"\n">>,
      CI_DECLINED,
      <<"\t">> \o Cased(CI_DECLINED, {1, 4}) \o <<" ">>,
      CD_APPROVED,
      Cased(CD_APPROVED, {1, 2, 4}) \o <<"\r", "\n">>,
      CD_DECLINED,
      <<"\n">> \o Upper(CD_DECLINED),
      <<>>,
      <<" ", "\n">>,
      PENDING_REVIEW,
      <<"c", "i", " ", " ", "a", "p", "p", "r", "o", "v", "e", "d">>,
      SubSeq(CI_APPROVED, 1, Len(CI_APPROVED) - 1),
      CD_APPROVED \o <<"!">>,
      CI_APPROVED \o <<"\n">> \o CI_DECLINED }

Responses ==
    {Ok(t) : t \in FlagTexts} \cup {Failure(k) : k \in ResponseKinds \ {"ok"}}

\* seconds a fetch may take (urlopen has no timeout) and a sleep may take
\* (time.sleep(5) returns after 5 seconds or later)
FetchDurations == {0, MAX_DURATION}
SleepDurations == {POLL_INTERVAL, MAX_DURATION}

\* time.time() when the poller is entered
StartClocks == {0, MAX_DURATION + 1}

MaxAttemptsValues == {None} \cup {Some(k) : k \in -1..MaxCap}

(***************************************************************************)
(* The repository location, lines 54-62: os.environ.get with its defaults, *)
(* the last '/'-separated part of GITHUB_REPOSITORY, and the file path     *)
(***************************************************************************)
DATASINNER == <<"d", "a", "t", "a", "s", "i", "n", "n", "e", "r">>
AWS_CI_CD_PROJECT ==
    <<"A", "W", "S", "-", "C", "I", "-", "C", "D", "-",
      "P", "r", "o", "j", "e", "c", "t">>
DEFAULT_REPOSITORY == DATASINNER \o <<"/">> \o AWS_CI_CD_PROJECT
MAIN == <<"m", "a", "i", "n">>
TEST == <<"t", "e", "s", "t">>
STATUS_CHECK_TXT ==
    <<"s", "t", "a", "t", "u", "s", "_", "c", "h", "e", "c", "k", ".", "t", "x", "t">>

\* os.environ.get(key, default)
EnvGet(e, key, default) == IF e[key] = None THEN default ELSE Val(e[key])

\* '/' in s
HasSlash(s) == \E i \in 1..Len(s) : s[i] = "/"

\* s.split('/')[-1]: what follows the last '/'
RECURSIVE SplitLast(_)
SplitLast(s) ==
    IF HasSlash(s)
    THEN SplitLast(SubSeq(s, (CHOOSE i \in 1..Len(s) : s[i] = "/") + 1, Len(s)))
    ELSE s

\* lines 54-57 and the arguments of the call at line 62
BuildLocation(e, default_branch) ==
    LET owner == EnvGet(e, "GITHUB_REPOSITORY_OWNER", DATASINNER)
        repo_full == EnvGet(e, "GITHUB_REPOSITORY", DEFAULT_REPOSITORY)
        repo == IF HasSlash(repo_full) THEN SplitLast(repo_full)
                ELSE AWS_CI_CD_PROJECT
        branch == EnvGet(e, "GITHUB_REF_NAME", default_branch)
    IN  [owner |-> owner, repo |-> repo, file_path |-> STATUS_CHECK_TXT,
         branch |-> branch]

\* check_ci_status_once (default branch 'main'), check_cd_status_once ('test')
LocationOf(g, e) ==
    Some(BuildLocation(e, IF g = "ci" THEN MAIN ELSE TEST))

EnvKeys == {"GITHUB_REPOSITORY_OWNER", "GITHUB_REPOSITORY", "GITHUB_REF_NAME"}
UnsetEnv == [k \in EnvKeys |-> None]

(***************************************************************************)
(* State after the script is loaded, before poll_for_decision is entered   *)
(***************************************************************************)
InitWith(clocks, caps) ==
    /\ gate \in {"ci", "cd"}
    /\ caller \in {"main", "direct"}
    /\ max_attempts \in caps
    /\ caller = "main" => max_attempts = None
    /\ clock \in clocks
    /\ pc = "start"
    /\ attempt = 0
    /\ start_time = 0
    /\ elapsed_time = 0
    /\ status = "none"
    /\ result = None
    /\ exit_code = None
    /\ response = NoResponse
    /\ fetches = 0
    /\ sleeps = 0
    /\ slept = 0
    /\ classified = [s \in Statuses |-> 0]

\* the environment, and nothing fetched or run side by side yet
InitHost(envs) ==
    /\ env \in envs
    /\ startup_env = env
    /\ location = None
    /\ run_input = None
    /\ run_output = None

Init == InitWith(StartClocks, MaxAttemptsValues) /\ InitHost({UnsetEnv})

(***************************************************************************)
(* poll_for_decision / poll_for_cd_decision                                *)
(***************************************************************************)
\* lines 93-94
Enter ==
    /\ pc = "start"
    /\ attempt' = 0
    /\ start_time' = clock
    /\ pc' = "loop"
    /\ UNCHANGED <<hostVars, location>>
    /\ UNCHANGED <<gate, caller, max_attempts, elapsed_time, status, result,
                   exit_code, clock, response, fetches, sleeps, slept,
                   classified>>

\* lines 97-98
BeginAttempt ==
    /\ pc = "loop"
    /\ attempt' = attempt + 1
    /\ elapsed_time' = clock - start_time
    /\ response' = NoResponse
    /\ pc' = "check"
    /\ UNCHANGED <<hostVars, location>>
    /\ UNCHANGED <<gate, caller, max_attempts, start_time, status, result,
                   exit_code, clock, fetches, sleeps, slept, classified>>

\* mutant: the fetcher tries a failed request a second time
CheckOnce_RetryOnFailure(answers, durations) ==
    /\ pc = "check"
    /\ \E r \in answers, d \in durations :
          /\ response' = r
          /\ clock' = clock + d
          /\ status' = check_status_once(gate, r)
          /\ classified' = [classified EXCEPT ![check_status_once(gate, r)] = @ + 1]
          /\ fetches' = fetches + (IF r.kind = "ok" THEN 1 ELSE 2)
    /\ pc' = "dispatch"
    /\ location' = LocationOf(gate, env)
    /\ UNCHANGED hostVars
    /\ UNCHANGED <<gate, caller, max_attempts, attempt, start_time,
                   elapsed_time, result, exit_code, sleeps, slept>>

\* line 102: one call of check_*_status_once, which issues one urlopen
CheckOnce(answers, durations) ==
    /\ pc = "check"
    /\ \E r \in answers, d \in durations :
          /\ response' = r
          /\ clock' = clock + d
          /\ status' = check_status_once(gate, r)
          /\ classified' = [classified EXCEPT ![check_status_once(gate, r)] = @ + 1]
    /\ fetches' = fetches + 1
    /\ pc' = "dispatch"
    /\ location' = LocationOf(gate, env)
    /\ UNCHANGED hostVars
    /\ UNCHANGED <<gate, caller, max_attempts, attempt, start_time,
                   elapsed_time, result, exit_code, sleeps, slept>>

\* mutant: the attempt cap is tested before the branches on status
Dispatch_CapFirst ==
    /\ pc = "dispatch"
    /\ IF CapReached(max_attempts, attempt)
       THEN result' = Some(FALSE) /\ pc' = "returned"
       ELSE IF status = "approved"
       THEN result' = Some(TRUE) /\ pc' = "returned"
       ELSE IF status \in {"declined", "error"}
       THEN result' = Some(FALSE) /\ pc' = "returned"
       ELSE result' = result /\ pc' = "sleep"
    /\ UNCHANGED <<hostVars, location>>
    /\ UNCHANGED <<gate, caller, max_attempts, attempt, start_time,
                   elapsed_time, status, exit_code, clock, response, fetches,
                   sleeps, slept, classified>>

\* mutant: a declined attempt is not a terminal branch and polls on
Dispatch_DeclinedKeepsPolling ==
    /\ pc = "dispatch"
    /\ IF status = "approved"
       THEN result' = Some(TRUE) /\ pc' = "returned"
       ELSE IF status = "error"
       THEN result' = Some(FALSE) /\ pc' = "returned"
       ELSE IF status \in {"waiting", "declined"} /\ CapReached(max_attempts, attempt)
       THEN result' = Some(FALSE) /\ pc' = "returned"
       ELSE result' = result /\ pc' = "sleep"
    /\ UNCHANGED <<hostVars, location>>
    /\ UNCHANGED <<gate, caller, max_attempts, attempt, start_time,
                   elapsed_time, status, exit_code, clock, response, fetches,
                   sleeps, slept, classified>>

\* lines 104-119: the branches on status, up to the call of time.sleep
Dispatch ==
    /\ pc = "dispatch"
    /\ IF status = "approved"
       THEN result' = Some(TRUE) /\ pc' = "returned"
       ELSE IF status \in {"declined", "error"}
       THEN result' = Some(FALSE) /\ pc' = "returned"
       ELSE IF status = "waiting" /\ CapReached(max_attempts, attempt)
       THEN result' = Some(FALSE) /\ pc' = "returned"
       ELSE IF status = "waiting"
       THEN result' = result /\ pc' = "sleep"
       ELSE result' = result /\ pc' = "ceiling"
    /\ UNCHANGED <<hostVars, location>>
    /\ UNCHANGED <<gate, caller, max_attempts, attempt, start_time,
                   elapsed_time, status, exit_code, clock, response, fetches,
                   sleeps, slept, classified>>

\* mutant: a backoff, time.sleep(5 * attempt)
Sleep_Backoff(durations) ==
    /\ pc = "sleep"
    /\ sleeps' = sleeps + 1
    /\ slept' = slept + POLL_INTERVAL * attempt
    /\ \E d \in durations : clock' = clock + d * attempt
    /\ pc' = "ceiling"
    /\ UNCHANGED <<hostVars, location>>
    /\ UNCHANGED <<gate, caller, max_attempts, attempt, start_time,
                   elapsed_time, status, result, exit_code, response, fetches,
                   classified>>

\* line 120: time.sleep(5)
Sleep(durations) ==
    /\ pc = "sleep"
    /\ sleeps' = sleeps + 1
    /\ slept' = slept + POLL_INTERVAL
    /\ \E d \in durations : clock' = clock + d
    /\ pc' = "ceiling"
    /\ UNCHANGED <<hostVars, location>>
    /\ UNCHANGED <<gate, caller, max_attempts, attempt, start_time,
                   elapsed_time, status, result, exit_code, response, fetches,
                   classified>>

\* mutant: the ceiling is reported and the `return False` forgotten
CeilingCheck_NoReturn ==
    /\ pc = "ceiling"
    /\ result' = result
    /\ pc' = "loop"
    /\ UNCHANGED <<hostVars, location>>
    /\ UNCHANGED <<gate, caller, max_attempts, attempt, start_time,
                   elapsed_time, status, exit_code, clock, response, fetches,
                   sleeps, slept, classified>>

\* lines 123-125, with the elapsed_time read at line 98
CeilingCheck ==
    /\ pc = "ceiling"
    /\ IF CeilingExceeded(elapsed_time)
       THEN result' = Some(FALSE) /\ pc' = "returned"
       ELSE result' = result /\ pc' = "loop"
    /\ UNCHANGED <<hostVars, location>>
    /\ UNCHANGED <<gate, caller, max_attempts, attempt, start_time,
                   elapsed_time, status, exit_code, clock, response, fetches,
                   sleeps, slept, classified>>

(***************************************************************************)
(* main                                                                    *)
(***************************************************************************)
\* lines 132-137
MainExit ==
    /\ pc = "returned"
    /\ caller = "main"
    /\ exit_code' = Some(ExitCode(Val(result)))
    /\ pc' = "exited"
    /\ UNCHANGED <<hostVars, location>>
    /\ UNCHANGED <<gate, caller, max_attempts, attempt, start_time,
                   elapsed_time, status, result, clock, response, fetches,
                   sleeps, slept, classified>>

(***************************************************************************)
(* Spec: every caller, cap, response and duration, the attempts explored   *)
(* bounded by MaxAttempts                                                  *)
(***************************************************************************)
Next ==
    \/ Enter
    \/ (attempt < MaxAttempts /\ BeginAttempt)
    \/ CheckOnce(Responses, FetchDurations)
    \/ Dispatch
    \/ Sleep(SleepDurations)
    \/ CeilingCheck
    \/ MainExit

Spec == Init /\ [][Next]_vars


(***************************************************************************)
(* Vocabulary of the properties                                            *)
(***************************************************************************)
ApprovePhrase(g) == IF g = "ci" THEN CI_APPROVED ELSE CD_APPROVED
DeclinePhrase(g) == IF g = "ci" THEN CI_DECLINED ELSE CD_DECLINED

\* t is the phrase up to letter case, between two runs of whitespace
MatchesPhrase(t, phrase) ==
    \E i \in 0..Len(t) :
        /\ i + Len(phrase) <= Len(t)
        /\ \A j \in 1..i : t[j] \in Whitespace
        /\ \A k \in 1..Len(phrase) :
              t[i + k] \in {phrase[k], UpperChar(phrase[k])}
        /\ \A j \in (i + Len(phrase) + 1)..Len(t) : t[j] \in Whitespace

FetchFailed == response.kind \in ResponseKinds \ {"ok"}
Returned == pc \in {"returned", "exited"}
OnlyWaitingBefore ==
    /\ classified["waiting"] = attempt - 1
    /\ classified["error"] + classified["declined"] + classified["approved"] = 1

\* the step taken leaves the attempt: it returns `r`, with no fetch and no sleep
ReturnsNow(r) ==
    /\ pc' = "returned"
    /\ result' = Some(r)
    /\ attempt' = attempt
    /\ fetches' = fetches
    /\ sleeps' = sleeps

(***************************************************************************)
(* C1: the poller returns True only at an attempt whose fetched text,      *)
(* trimmed and lowercased, is the approve phrase: then the last attempt    *)
(* was classified 'approved' and every earlier one 'waiting'; and an       *)
(* attempt classified 'approved' returns True at once, with no further     *)
(* fetch and no sleep.                                                     *)
(***************************************************************************)
C1_TrueOnlyOnApprove ==
    /\ [](Returned /\ result = Some(TRUE) =>
            /\ response.kind = "ok"
            /\ MatchesPhrase(response.body, ApprovePhrase(gate))
            /\ status = "approved"
            /\ classified["approved"] = 1
            /\ OnlyWaitingBefore
            /\ fetches = attempt)
    /\ [][pc = "dispatch" /\ status = "approved" => ReturnsNow(TRUE)]_vars

C1_Witness ==
    /\ pc = "returned"
    /\ result = Some(TRUE)
    /\ attempt = 3
    /\ classified["waiting"] = 2
    /\ response.body # ApprovePhrase(gate)

(***************************************************************************)
(* C2: a fetch failure (404, another HTTP error, an exception) at attempt  *)
(* N makes the poller return False at attempt N, with no further attempt   *)
(* and no sleep after the failing fetch; a failure on the first attempt    *)
(* returns False with zero sleeps.                                         *)
(***************************************************************************)
C2_FailFastOnFetchError ==
    /\ [](pc = "dispatch" /\ FetchFailed => status = "error")
    /\ [][pc = "dispatch" /\ FetchFailed => ReturnsNow(FALSE)]_vars
    /\ [][Returned => fetches' = fetches /\ sleeps' = sleeps /\ attempt' = attempt]_vars
    /\ [](Returned /\ FetchFailed =>
            /\ result = Some(FALSE)
            /\ fetches = attempt
            /\ sleeps = attempt - 1
            /\ OnlyWaitingBefore)

C2_Witness ==
    /\ pc = "returned"
    /\ response.kind = "http404"
    /\ attempt = 1
    /\ sleeps = 0
    /\ result = Some(FALSE)

(***************************************************************************)
(* C3: whenever an attempt's fetched text, trimmed and lowercased, is the  *)
(* decline phrase, the loop returns False at that attempt, with no further *)
(* fetch and no sleep, whatever the attempt number, max_attempts and the   *)
(* elapsed time.                                                           *)
(***************************************************************************)
DeclineFetched ==
    /\ pc = "dispatch"
    /\ response.kind = "ok"
    /\ MatchesPhrase(response.body, DeclinePhrase(gate))

C3_DeclineReturnsFalse == [][DeclineFetched => ReturnsNow(FALSE)]_vars

C3_Witness ==
    /\ pc = "returned"
    /\ result = Some(FALSE)
    /\ status = "declined"
    /\ response.body # DeclinePhrase(gate)
    /\ attempt = 2
    /\ elapsed_time > MAX_DURATION
    /\ max_attempts = Some(2)

(***************************************************************************)
(* C4: main exits with 0 if and only if the poller ended on an 'approved'  *)
(* attempt and with 1 in every other case; once the poller has returned,   *)
(* main exits, and with no other code.                                     *)
(***************************************************************************)
C4_ExitCode ==
    /\ (pc = "exited" =>
          /\ caller = "main"
          /\ exit_code \in {Some(0), Some(1)}
          /\ (exit_code = Some(0) <=> status = "approved" /\ result = Some(TRUE))
          /\ (exit_code = Some(1) <=> status # "approved" /\ result = Some(FALSE)))
    /\ (pc # "exited" => exit_code = None)
    /\ (pc = "returned" /\ caller = "main" => ENABLED MainExit)

C4_Witness ==
    /\ pc = "exited"
    /\ exit_code = Some(1)
    /\ status = "waiting"
    /\ elapsed_time > MAX_DURATION


(***************************************************************************)
(* C5 as stated: if max_attempts = k (k >= 1) and every attempt yields     *)
(* 'waiting', the poller performs exactly k attempts (k fetches) and       *)
(* returns False.                                                          *)
(***************************************************************************)
CappedAllWaiting ==
    /\ Returned
    /\ max_attempts # None
    /\ Val(max_attempts) >= 1
    /\ classified["waiting"] = attempt

C5_Original_ExactlyKAttempts ==
    CappedAllWaiting =>
        /\ result = Some(FALSE)
        /\ attempt = Val(max_attempts)
        /\ fetches = Val(max_attempts)

(***************************************************************************)
(* C5 amended: if max_attempts = k (k >= 1) and every attempt yields       *)
(* 'waiting', the poller returns False after at most k attempts, one fetch *)
(* each, and after exactly k attempts unless an attempt began with more    *)
(* than 86400 seconds elapsed (that attempt is then the last one).         *)
(***************************************************************************)
C5_KAttemptsUnlessCeiling ==
    CappedAllWaiting =>
        /\ result = Some(FALSE)
        /\ fetches = attempt
        /\ attempt <= Val(max_attempts)
        /\ (elapsed_time <= MAX_DURATION => attempt = Val(max_attempts))
        /\ (attempt < Val(max_attempts) => elapsed_time > MAX_DURATION)

C5_Witness ==
    /\ pc = "returned"
    /\ max_attempts = Some(3)
    /\ classified["waiting"] = 3
    /\ attempt = 3
    /\ sleeps = 2
    /\ elapsed_time <= MAX_DURATION
    /\ result = Some(FALSE)

(***************************************************************************)
(* C6 as stated: once the clock has passed the 24-hour ceiling, no new     *)
(* fetch and no new sleep is started before the loop returns False.        *)
(***************************************************************************)
ClockPastCeiling == pc \notin {"start"} /\ clock - start_time > MAX_DURATION

C7_WaitThenApprove ==
    /\ [](/\ pc = "dispatch"
          /\ ~Truthy(max_attempts)
          /\ elapsed_time <= MAX_DURATION
          /\ response.kind = "ok"
          /\ MatchesPhrase(response.body, ApprovePhrase(gate))
          /\ classified["waiting"] = attempt - 1
          => /\ fetches = attempt
             /\ sleeps = attempt - 1
             /\ slept = POLL_INTERVAL * (attempt - 1)
             /\ status = "approved")
    /\ [][/\ pc = "dispatch"
          /\ response.kind = "ok"
          /\ MatchesPhrase(response.body, ApprovePhrase(gate))
          => ReturnsNow(TRUE) /\ slept' = slept]_vars
    /\ [][sleeps' # sleeps =>
            status = "waiting" /\ sleeps' = sleeps + 1 /\ fetches = attempt]_vars

C7_Witness ==
    /\ pc = "returned"
    /\ max_attempts = None
    /\ result = Some(TRUE)
    /\ attempt = 4
    /\ fetches = 4
    /\ sleeps = 3
    /\ slept = POLL_INTERVAL * 3
    /\ elapsed_time = POLL_INTERVAL * 3
    /\ classified["waiting"] = 3


(***************************************************************************)
(* SpecClassify: one attempt, its fetched text drawn from every letter     *)
(* case of the four phrases, padded with whitespace or not, exact or       *)
(* perturbed (last character dropped, a character appended, an interior    *)
(* space doubled, in the letter cases of the first word), and from         *)
(* FlagTexts                                                               *)
(***************************************************************************)
Phrases == {CI_APPROVED, CI_DECLINED, CD_APPROVED, CD_DECLINED}
LeftPads == {<<>>, <<" ", "\t">>}
RightPads == {<<>>, <<"\n">>, <<"\r", "\n", " ">>}
LetterPositions(s) == {i \in 1..Len(s) : s[i] # " "}
Perturbations == {"prefix", "superstring", "interior"}

Perturbed(s, how) ==
    CASE how = "prefix" -> SubSeq(s, 1, Len(s) - 1)
      [] how = "superstring" -> s \o <<"d">>
      [] how = "interior" -> SubSeq(s, 1, 3) \o <<" ">> \o SubSeq(s, 4, Len(s))

\* a phrase q in every letter case, or in the cases of its first word only
Casings(q, positions) == {Cased(q, U) : U \in SUBSET positions}

ClassifyTexts ==
    FlagTexts \cup
    { l \o t \o r :
        t \in UNION {Casings(q, LetterPositions(q)) : q \in Phrases},
        l \in LeftPads, r \in RightPads } \cup
    { l \o Perturbed(t, how) \o r :
        t \in UNION {Casings(q, {1, 2}) : q \in Phrases},
        how \in Perturbations, l \in LeftPads, r \in RightPads }

ClassifyResponses ==
    {Ok(t) : t \in ClassifyTexts} \cup {Failure(k) : k \in ResponseKinds \ {"ok"}}

InitClassify ==
    InitWith({0}, {None}) /\ caller = "direct" /\ InitHost({UnsetEnv})

NextClassify ==
    \/ Enter
    \/ (attempt < 1 /\ BeginAttempt)
    \/ CheckOnce(ClassifyResponses, {0})

SpecClassify == InitClassify /\ [][NextClassify]_vars

(***************************************************************************)
(* C8: classification is case-insensitive and whitespace-insensitive at    *)
(* the edges: a fetched text that is the approve phrase of the gate in any *)
(* combination of letter case, with any leading and trailing whitespace,   *)
(* is classified 'approved', and likewise the decline phrase 'declined'.   *)
(***************************************************************************)
C8_CaseAndEdgeWhitespaceInsensitive ==
    pc = "dispatch" /\ response.kind = "ok" =>
        /\ MatchesPhrase(response.body, ApprovePhrase(gate)) => status = "approved"
        /\ MatchesPhrase(response.body, DeclinePhrase(gate)) => status = "declined"

C8_Witness ==
    /\ pc = "dispatch"
    /\ gate = "cd"
    /\ response.body =
          <<" ", "\t">> \o Cased(CD_APPROVED, {2, 5, 11}) \o <<"\r", "\n", " ">>
    /\ status = "approved"

(***************************************************************************)
(* C9: a successfully fetched text that, trimmed and lowercased, is        *)
(* neither the approve nor the decline phrase of the gate (the empty text, *)
(* a phrase with extra interior characters, a prefix or a superstring of a *)
(* phrase) is classified 'waiting', never 'approved', 'declined' or        *)
(* 'error'.                                                                *)
(***************************************************************************)
C9_OtherTextIsWaiting ==
    /\ pc = "dispatch"
    /\ response.kind = "ok"
    /\ ~MatchesPhrase(response.body, ApprovePhrase(gate))
    /\ ~MatchesPhrase(response.body, DeclinePhrase(gate))
    => status = "waiting"

C9_Witness ==
    /\ pc = "dispatch"
    /\ gate = "cd"
    /\ response.body = <<" ", "\t">> \o Cased(CD_APPROVED, {1, 2}) \o <<"d", "\n">>
    /\ status = "waiting"


(***************************************************************************)
(* SpecLive: main, which enters poll_for_decision with no max_attempts,    *)
(* every attempt answered by a text that is no decision, every sleep       *)
(* taking at least POLL_INTERVAL seconds, and no bound on the attempts.    *)
(* During the first MaxAttempts attempts a fetch and a sleep may also take *)
(* a day; after them they take 0 and POLL_INTERVAL seconds, the slowest    *)
(* the clock can advance.  The script is one sequential thread: a step     *)
(* that can be taken is taken.                                             *)
(***************************************************************************)
WaitingResponses == {Ok(<<>>), Ok(PENDING_REVIEW)}
Stalls == attempt <= MaxAttempts

InitLive == InitWith({0}, {None}) /\ caller = "main" /\ InitHost({UnsetEnv})

NextLive ==
    \/ Enter
    \/ BeginAttempt
    \/ CheckOnce(IF Stalls THEN WaitingResponses ELSE {Ok(PENDING_REVIEW)},
                 IF Stalls THEN FetchDurations ELSE {0})
    \/ Dispatch
    \/ Sleep(IF Stalls THEN SleepDurations ELSE {POLL_INTERVAL})
    \/ CeilingCheck
    \/ MainExit

SpecLive == InitLive /\ [][NextLive]_vars /\ WF_vars(NextLive)

(***************************************************************************)
(* C10: with no max_attempts supplied the loop is bounded by the           *)
(* wall-clock ceiling: when every attempt yields 'waiting' and the clock   *)
(* advances by at least the 5-second interval per sleep, the poller        *)
(* returns, with False, and no run polls forever.  Stated as termination   *)
(* by a variant: the loop goes round again only while the elapsed time it  *)
(* read is within the ceiling, each round adds at least 5 seconds, so the  *)
(* attempts number at most 86400 / 5 + 2; every step lowers a natural      *)
(* number; and a step can be taken until the poller has returned and main  *)
(* has exited.                                                             *)
(***************************************************************************)
AttemptsCeiling == (MAX_DURATION \div POLL_INTERVAL) + 2

PcRank ==
    CASE pc = "start" -> 6
      [] pc = "check" -> 4
      [] pc = "dispatch" -> 3
      [] pc = "sleep" -> 2
      [] pc = "ceiling" -> 1
      [] pc = "loop" -> IF attempt = 0 THEN 5 ELSE 0
      [] pc = "returned" -> 1
      [] pc = "exited" -> 0

Variant ==
    IF Returned THEN PcRank ELSE 2 + 5 * (AttemptsCeiling - attempt) + PcRank

C10_CeilingBoundsTheLoop ==
    /\ [](classified["waiting"] = fetches /\ ~Truthy(max_attempts))
    /\ [](clock - start_time >= POLL_INTERVAL * sleeps)
    /\ [](pc = "loop" /\ attempt > 0 => elapsed_time <= MAX_DURATION)
    /\ [](attempt <= AttemptsCeiling /\ Variant >= 0)
    /\ [][Variant' < Variant]_vars
    /\ [](pc = "exited" \/ ENABLED NextLive)
    /\ [](Returned => result = Some(FALSE))

C10_Witness ==
    /\ pc = "exited"
    /\ result = Some(FALSE)
    /\ attempt = AttemptsCeiling
    /\ sleeps = attempt
    /\ classified["waiting"] = attempt


(***************************************************************************)
(* C11: every 5-second sleep is immediately preceded by an       *)
(* attempt classified 'waiting' and is followed by another poll attempt (a *)
(* fetch); the loop never sleeps and then returns without a further        *)
(* attempt.                                                                *)
(***************************************************************************)
SleepsOnlyAfterWaiting ==
    sleeps' # sleeps =>
        /\ pc = "sleep"
        /\ status = "waiting"
        /\ fetches = attempt
        /\ sleeps = attempt - 1
        /\ sleeps' = attempt

C11_Original_SleepThenAttempt ==
    /\ [][SleepsOnlyAfterWaiting]_vars
    /\ [][pc = "ceiling" => pc' = "loop" /\ result' = None]_vars

(***************************************************************************)
(* What the loop does instead: every 5-second sleep is immediately         *)
(* preceded by an attempt classified 'waiting'; it is followed by another  *)
(* poll attempt (a fetch) when the attempt it follows began with at most   *)
(* 86400 seconds elapsed, and by the return of False, without a further    *)
(* attempt, when that attempt began with more.                             *)
(***************************************************************************)
SleepThenAttemptOrCeiling ==
    /\ [][SleepsOnlyAfterWaiting]_vars
    /\ [][pc = "sleep" => pc' = "ceiling" /\ sleeps' = sleeps + 1]_vars
    /\ [][pc = "ceiling" =>
            IF elapsed_time > MAX_DURATION
            THEN ReturnsNow(FALSE)
            ELSE pc' = "loop" /\ result' = None /\ attempt' = attempt]_vars
    /\ [][pc = "loop" => pc' = "check" /\ attempt' = attempt + 1]_vars
    /\ [][pc = "check" => pc' = "dispatch" /\ fetches' = fetches + 1]_vars

(***************************************************************************)
(* C12: on every attempt the termination conditions are tested in the      *)
(* order (a) terminal decision, (b) fetch error, (c) attempt cap, (d)      *)
(* wall-clock ceiling: an approve phrase returns True even when the        *)
(* attempt number equals max_attempts or the elapsed time exceeds the      *)
(* ceiling, and a 'waiting' attempt whose number equals max_attempts       *)
(* returns False through the cap branch, without sleeping, before the      *)
(* ceiling is examined.                                                    *)
(***************************************************************************)
ApproveFetched ==
    /\ pc = "dispatch"
    /\ response.kind = "ok"
    /\ MatchesPhrase(response.body, ApprovePhrase(gate))

AtCap == max_attempts = Some(attempt)

C12_TerminationOrder ==
    /\ [][ApproveFetched /\ (AtCap \/ elapsed_time > MAX_DURATION)
            => ReturnsNow(TRUE)]_vars
    /\ [][pc = "dispatch" /\ (DeclineFetched \/ FetchFailed)
            /\ (AtCap \/ elapsed_time > MAX_DURATION)
            => ReturnsNow(FALSE)]_vars
    /\ [][pc = "dispatch" /\ status = "waiting" /\ AtCap
            => ReturnsNow(FALSE) /\ slept' = slept]_vars
    /\ [][pc = "dispatch" /\ status = "waiting" /\ ~AtCap
            /\ elapsed_time > MAX_DURATION /\ Truthy(max_attempts)
            /\ attempt < Val(max_attempts)
            => pc' = "sleep" /\ result' = None]_vars
    /\ [](pc = "ceiling" => sleeps = attempt /\ status = "waiting")

C12_Witness ==
    /\ pc = "returned"
    /\ result = Some(TRUE)
    /\ status = "approved"
    /\ attempt = 2
    /\ max_attempts = Some(2)
    /\ elapsed_time > MAX_DURATION

Terminal == {"approved", "declined"}

C17_NoContentDecidesBothGates ==
    pc = "dispatch" /\ response.kind = "ok" =>
        /\ check_ci_status_once(response) \in Terminal =>
              check_cd_status_once(response) = "waiting"
        /\ check_cd_status_once(response) \in Terminal =>
              check_ci_status_once(response) = "waiting"
        /\ status = check_status_once(gate, response)
        /\ MatchesPhrase(response.body, CI_APPROVED) =>
              check_cd_status_once(response) = "waiting"
        /\ MatchesPhrase(response.body, CD_APPROVED) =>
              check_ci_status_once(response) = "waiting"

C17_Witness ==
    /\ pc = "dispatch"
    /\ gate = "cd"
    /\ response.body = <<" ", "\t">> \o Cased(CI_APPROVED, {1, 4}) \o <<"\n">>
    /\ check_ci_status_once(response) = "approved"
    /\ status = "waiting"

(***************************************************************************)
(* C18: the attempt cap applies only for a truthy max_attempts: with       *)
(* max_attempts = 0, as with None, the cap never fires and a run of        *)
(* 'waiting' attempts goes on past any attempt count until the wall-clock  *)
(* ceiling, whereas for max_attempts = k >= 1 the attempts never exceed k. *)
(***************************************************************************)
NoCap == max_attempts \in {None, Some(0)}

EnvValues(k) ==
    CASE k = "GITHUB_REPOSITORY_OWNER" -> {None, Some(<<>>), Some(<<"o">>)}
      [] k = "GITHUB_REPOSITORY" ->
            {None, Some(<<>>), Some(<<"r">>), Some(<<"o", "/", "r">>),
             Some(<<"o", "/">>)}
      [] k = "GITHUB_REF_NAME" ->
            {None, Some(<<>>), Some(<<"b">>), Some(<<"f", "/", "b">>)}

Environments ==
    {e \in [EnvKeys -> UNION {EnvValues(k) : k \in EnvKeys}] :
        \A k \in EnvKeys : e[k] \in EnvValues(k)}

\* os.environ[k] = v, or del os.environ[k], by a thread of the host
SetEnv ==
    /\ caller = "direct"
    /\ pc = "sleep"
    /\ \E k \in EnvKeys : \E v \in EnvValues(k) :
          /\ v # env[k]
          /\ env' = [env EXCEPT ![k] = v]
    /\ UNCHANGED <<gate, caller, pc, max_attempts, attempt, start_time,
                   elapsed_time, status, result, exit_code, clock, response,
                   fetches, sleeps, slept, classified, startup_env, location,
                   run_input, run_output>>

\* attempts of a run under SpecEnv
EnvAttempts == 2

InitEnv == InitWith({0}, {None}) /\ InitHost(Environments)

NextEnv ==
    \/ Enter
    \/ (attempt < EnvAttempts /\ BeginAttempt)
    \/ CheckOnce({Ok(PENDING_REVIEW), Failure("http404")}, {0})
    \/ Dispatch
    \/ Sleep({POLL_INTERVAL})
    \/ CeilingCheck
    \/ MainExit
    \/ SetEnv

SpecEnv == InitEnv /\ [][NextEnv]_vars

(***************************************************************************)
(* C14: the repository location (owner, repository name, branch, file      *)
(* path) is built from the environment once at startup and not changed     *)
(* during a run: the location used by the fetch of attempt N is the one    *)
(* read at startup, for every N, even if the environment variables differ  *)
(* at the time of a later attempt.                                         *)
(***************************************************************************)
C14_LocationIsTheStartupLocation ==
    location # None => location = LocationOf(gate, startup_env)

(***************************************************************************)
(* C15: for every environment the location handed to the fetcher has a     *)
(* non-empty owner, repository name, branch and file path, and the branch  *)
(* is the configured fallback ('main' for CI, 'test' for CD) when          *)
(* GITHUB_REF_NAME is absent.                                              *)
(***************************************************************************)
C15_LocationFieldsNonEmpty ==
    pc = "dispatch" =>
        /\ Val(location).owner # <<>>
        /\ Val(location).repo # <<>>
        /\ Val(location).branch # <<>>
        /\ Val(location).file_path # <<>>
        /\ env["GITHUB_REF_NAME"] = None =>
              Val(location).branch = IF gate = "ci" THEN MAIN ELSE TEST

(***************************************************************************)
(* SpecPair: a whole run of each poller as a function of what its          *)
(* environment hands it: the outcome class of each attempt's fetch         *)
(* (relative to the script's own phrases), the readings of time.time()     *)
(* (line 94, then line 98 of each attempt) and max_attempts.  A run that   *)
(* is still polling when the inputs end has result None.                   *)
(***************************************************************************)
\* attempts for which a run is given inputs
MaxRun == 3

OutcomeClasses == {"approve", "decline", "other", "failure"}

\* what the endpoint answers for an outcome class, per script
ResponseFor(g, class) ==
    CASE class = "approve" -> Ok(IF g = "ci" THEN CI_APPROVED ELSE CD_APPROVED)
      [] class = "decline" -> Ok(IF g = "ci" THEN CI_DECLINED ELSE CD_DECLINED)
      [] class = "other"   -> Ok(PENDING_REVIEW)
      [] class = "failure" -> Failure("http404")

ClockReadings == {0, MAX_DURATION, MAX_DURATION + 1}

RunInputs ==
    [outcomes : [1..MaxRun -> OutcomeClasses],
     readings : [1..(MaxRun + 1) -> ClockReadings],
     max_attempts : MaxAttemptsValues]

RunResult(a, s, r) == [attempts |-> a, sleeps |-> s, result |-> r]

\* status_check.py lines 96-125; a attempts and s sleeps made so far
RECURSIVE poll_for_decision_loop(_, _, _)
poll_for_decision_loop(inp, a, s) ==
    IF a >= MaxRun THEN RunResult(a, s, None)
    ELSE LET n == a + 1
             elapsed == inp.readings[n + 1] - inp.readings[1]
             st == check_ci_status_once(ResponseFor("ci", inp.outcomes[n]))
         IN  IF st = "approved" THEN RunResult(n, s, Some(TRUE))
             ELSE IF st = "declined" THEN RunResult(n, s, Some(FALSE))
             ELSE IF st = "error" THEN RunResult(n, s, Some(FALSE))
             ELSE IF CapReached(inp.max_attempts, n)
                  THEN RunResult(n, s, Some(FALSE))
             ELSE IF CeilingExceeded(elapsed)
                  THEN RunResult(n, s + 1, Some(FALSE))
             ELSE poll_for_decision_loop(inp, n, s + 1)

poll_for_decision_run(inp) == poll_for_decision_loop(inp, 0, 0)

\* mutant: the CD poller tests the ceiling before it sleeps
RECURSIVE poll_for_cd_decision_loop_CeilingBeforeSleep(_, _, _)
poll_for_cd_decision_loop_CeilingBeforeSleep(inp, a, s) ==
    IF a >= MaxRun THEN RunResult(a, s, None)
    ELSE LET n == a + 1
             elapsed == inp.readings[n + 1] - inp.readings[1]
             st == check_cd_status_once(ResponseFor("cd", inp.outcomes[n]))
         IN  IF st = "approved" THEN RunResult(n, s, Some(TRUE))
             ELSE IF st \in {"declined", "error"} THEN RunResult(n, s, Some(FALSE))
             ELSE IF CapReached(inp.max_attempts, n)
                  THEN RunResult(n, s, Some(FALSE))
             ELSE IF CeilingExceeded(elapsed)
                  THEN RunResult(n, s, Some(FALSE))
             ELSE poll_for_cd_decision_loop_CeilingBeforeSleep(inp, n, s + 1)

\* status_check_cd.py lines 96-125
RECURSIVE poll_for_cd_decision_loop(_, _, _)
poll_for_cd_decision_loop(inp, a, s) ==
    IF a >= MaxRun THEN RunResult(a, s, None)
    ELSE LET n == a + 1
             elapsed == inp.readings[n + 1] - inp.readings[1]
             st == check_cd_status_once(ResponseFor("cd", inp.outcomes[n]))
         IN  IF st = "approved" THEN RunResult(n, s, Some(TRUE))
             ELSE IF st = "declined" THEN RunResult(n, s, Some(FALSE))
             ELSE IF st = "error" THEN RunResult(n, s, Some(FALSE))
             ELSE IF CapReached(inp.max_attempts, n)
                  THEN RunResult(n, s, Some(FALSE))
             ELSE IF CeilingExceeded(elapsed)
                  THEN RunResult(n, s + 1, Some(FALSE))
             ELSE poll_for_cd_decision_loop(inp, n, s + 1)

poll_for_cd_decision_run(inp) == poll_for_cd_decision_loop(inp, 0, 0)

InitPair ==
    /\ InitWith({0}, {None})
    /\ gate = "ci"
    /\ caller = "direct"
    /\ env = UnsetEnv
    /\ startup_env = env
    /\ location = None
    /\ run_input \in {Some(i) : i \in RunInputs}
    /\ run_output = None

\* both pollers are run on the same inputs
RunBoth ==
    /\ run_input # None
    /\ run_output = None
    /\ run_output' = Some([ci |-> poll_for_decision_run(Val(run_input)),
                           cd |-> poll_for_cd_decision_run(Val(run_input))])
    /\ UNCHANGED <<gate, caller, pc, max_attempts, attempt, start_time,
                   elapsed_time, status, result, exit_code, clock, response,
                   fetches, sleeps, slept, classified, env, startup_env,
                   location, run_input>>

NextPair == RunBoth

SpecPair == InitPair /\ [][NextPair]_vars

(***************************************************************************)
(* C16: run side by side on the same outcome classes, clock readings and   *)
(* max_attempts, poll_for_decision and poll_for_cd_decision perform the    *)
(* same number of attempts and sleeps and return the same boolean.         *)
(***************************************************************************)
C16_PollersAgree ==
    run_output # None =>
        /\ Val(run_output).ci.attempts = Val(run_output).cd.attempts
        /\ Val(run_output).ci.sleeps = Val(run_output).cd.sleeps
        /\ Val(run_output).ci.result = Val(run_output).cd.result

\* both waited twice, the second time past the ceiling, and returned False
C16_Witness ==
    /\ run_output # None
    /\ Val(run_output).ci = RunResult(2, 2, Some(FALSE))
    /\ Val(run_output).cd = RunResult(2, 2, Some(FALSE))
    /\ Val(run_input).outcomes[1] = "other"
    /\ Val(run_input).outcomes[2] = "other"

====
